---------------------------- MODULE Spec2Model ----------------------------
(***************************************************************************)
(* A model of the 2D physics core of the engine: the per-frame update      *)
(* (src/src/engine.rs, Engine::update), the collision detector and the     *)
(* resolver (physics_2d/collision.rs), the integrator entry points         *)
(* (physics_2d/transform.rs) and the scripting commands of engine.rs.      *)
(*                                                                         *)
(* f32 values are kept in exact fixed point:                               *)
(*   time      in ticks, TicksPerSecond ticks to the second;               *)
(*   velocity  in world units per second;                                  *)
(*   position, size, penetration in 1/WorldUnit of a world unit;           *)
(*   force     in TicksPerSecond world units per second squared, so that   *)
(*             (F / mass) * dt is  F * dt  with dt in ticks.               *)
(* WorldUnit carries a factor 2^MaxFrames so that the halving of the       *)
(* rigid-rigid correction is exact in every sub-step of a run.             *)
(***************************************************************************)
EXTENDS Integers, Sequences, FiniteSets, TLC

\* ------------------------------------------------------------- bounds
MaxFrames == 2
MaxBodies == 2
MaxCommands == 1

\* -------------------------------------------------------------- units
TicksPerSecond == 6 * 100
Grain == 2 ^ MaxFrames
WorldUnit == TicksPerSecond * Grain
HalfUnit == WorldUnit \div 2

\* --------------------------------------------------- program constants
\* engine.rs:99  physics_iterations_per_frame: 1
PhysicsIterationsPerFrame == 1
\* engine.rs:387  mass: 1.0
Mass == 1
\* collision.rs:155  let slop = 0.1;
slop == WorldUnit \div 10

\* ------------------------------------------------------------ vectors
Abs(x) == IF x < 0 THEN -x ELSE x
Min(x, y) == IF x < y THEN x ELSE y
Max(x, y) == IF x < y THEN y ELSE x
VAdd(u, v) == <<u[1] + v[1], u[2] + v[2]>>
VSub(u, v) == <<u[1] - v[1], u[2] - v[2]>>
VScale(k, v) == <<k * v[1], k * v[2]>>
Dot(u, v) == u[1] * v[1] + u[2] * v[2]
Zero2 == <<0, 0>>
\* x * 0.5
Half(x) == x \div 2
\* the displacement, in position units, of velocity v over dt ticks
Displacement(v, d) == VScale(d * Grain, v)

\* u8 & u8
RECURSIVE BitAnd(_, _)
BitAnd(x, y) ==
    IF x = 0 \/ y = 0 THEN 0
    ELSE (x % 2) * (y % 2) + 2 * BitAnd(x \div 2, y \div 2)

Static == "Static"
Rigid == "Rigid"
Kinematic == "Kinematic"
BodyTypes == {Static, Rigid, Kinematic}

\* BodyType::from(u8)
BodyType_from(n) ==
    IF n = 0 THEN Static ELSE IF n = 1 THEN Rigid ELSE Kinematic

VARIABLES
    physics_bodies_2d,      \* entity -> [body_type, velocity, force_accumulator]
    transforms_2d,          \* entity -> [position, half_extents, scale]
    physical_colliders_2d,  \* parent -> [area_id, half_extents, masks, layers]
    inactive_colliders,     \* colliders toggled off, parent -> collider
    next_entity,            \* World::new_entity's counter
    pc,                     \* where Engine::update stands
    dt,                     \* the dt of the update in progress, in ticks
    iter,                   \* _i of the loop of Engine::update
    collisions,             \* the Vec<CollisionPair> of the sub-step
    ri,                     \* the contact resolve_collisions is at
    delivered,              \* the calls of ENGINE_on_collision made
    collisions_table,       \* the table ENGINE_on_collision is called with
    panicked,               \* a lookup failed (unwrap on None)
    frames,                 \* history: updates started
    elapsed,                \* history: sum of the dt of the updates
    substeps,               \* history: sub-steps run
    created,                \* history: entity -> position and velocity at creation
    commands,               \* history: scripting commands issued
    lua_call,               \* history: the last command of a script, what it returned
    undrained,              \* history: entity -> force applied, not integrated yet
    clock,                  \* the instant Instant::now() returns, in ticks
    last_frame,             \* Engine::last_frame, in ticks
    fps_opt,                \* the configured frame rate, None for "auto"
    control_flow            \* what about_to_wait last told the event loop

world == <<physics_bodies_2d, transforms_2d, physical_colliders_2d,
           inactive_colliders, next_entity>>
loop == <<pc, dt, iter, collisions, ri, delivered, collisions_table>>
history == <<frames, elapsed, substeps, created, commands, lua_call, undrained>>
event_loop == <<clock, last_frame, fps_opt, control_flow>>
vars == <<world, loop, panicked, history, event_loop>>

Bodies == DOMAIN physics_bodies_2d

\* -------------------------------------------------------- integrator
\* PhysicsBody2D::extrapolate(dt, transform): the (body, transform) after dt,
\* nothing stored. Static bodies are exempt; kinematic bodies take no force.
extrapolate(body, transform, d) ==
    IF body.body_type = Static THEN [body |-> body, transform |-> transform]
    ELSE
        LET v == IF body.body_type = Rigid
                 THEN VAdd(body.velocity,
                           VScale(d, <<body.force_accumulator[1] \div Mass,
                                       body.force_accumulator[2] \div Mass>>))
                 ELSE body.velocity
        IN [body |-> [body EXCEPT !.velocity = v],
            transform |-> [transform EXCEPT
                             !.position = VAdd(@, Displacement(v, d))]]

\* PhysicsBody2D::integrate(dt, transform): the same step, in place
integrate(body, transform, d) == extrapolate(body, transform, d)

\* transform.rs:57-70
transform_system_calculate_intended_position(d) ==
    [id \in Bodies |->
        extrapolate(physics_bodies_2d[id], transforms_2d[id], d)]

\* Transform2D::get_scale_abs
get_scale_abs(t) == <<Abs(t.scale[1]), Abs(t.scale[2])>>

\* Transform2D::get_size
get_size(t) ==
    <<t.half_extents[1] * 2 * Abs(t.scale[1]),
      t.half_extents[2] * 2 * Abs(t.scale[2])>>

\* ---------------------------------------------------------- detector
\* World::masks_overlap_layers(a, b): the masks of a's physics areas against
\* the layers of b's
masks_overlap_layers(a, b) ==
    BitAnd(physical_colliders_2d[a].masks, physical_colliders_2d[b].layers)

\* collision.rs:58-65
half_size(collider, t) ==
    <<collider.half_extents[1] * get_scale_abs(t)[1],
      collider.half_extents[2] * get_scale_abs(t)[2]>>

\* a faulty variant: the Y axis not tested
check_aabb_intersects_x_only(a_t, b_t, a_half, b_half) ==
    /\ a_t.position[1] - a_half[1] <= b_t.position[1] + b_half[1]
    /\ a_t.position[1] + a_half[1] >= b_t.position[1] - b_half[1]

\* collision.rs:123-152
check_aabb_intersects(a_t, b_t, a_half, b_half) ==
    LET a_min == VSub(a_t.position, a_half)
        a_max == VAdd(a_t.position, a_half)
        b_min == VSub(b_t.position, b_half)
        b_max == VAdd(b_t.position, b_half)
        overlap_x == a_min[1] <= b_max[1] /\ a_max[1] >= b_min[1]
        overlap_y == a_min[2] <= b_max[2] /\ a_max[2] >= b_min[2]
    IN overlap_x /\ overlap_y

\* a faulty variant: the operands of the mask test swapped
collider_filter_swapped(a_collider, b_collider) ==
    ~ (a_collider.area_id = b_collider.area_id
       \/ BitAnd(b_collider.masks, a_collider.layers) = 0)

\* collision.rs:52, the filter on the two colliders
collider_filter(a_collider, b_collider) ==
    ~ (a_collider.area_id = b_collider.area_id
       \/ BitAnd(a_collider.masks, b_collider.layers) = 0)

\* a faulty variant: no mask or layer filter
pair_collides_unfiltered(next, a, b) ==
    /\ physical_colliders_2d[a].area_id # physical_colliders_2d[b].area_id
    /\ a \in DOMAIN next /\ b \in DOMAIN next
    /\ check_aabb_intersects(
           next[a].transform, next[b].transform,
           half_size(physical_colliders_2d[a], next[a].transform),
           half_size(physical_colliders_2d[b], next[b].transform))

\* collision.rs:36-66, whether the ordered pair (a, b) yields a contact
pair_collides(next, a, b) ==
    /\ masks_overlap_layers(a, b) # 0
    /\ collider_filter(physical_colliders_2d[a], physical_colliders_2d[b])
    /\ a \in DOMAIN next /\ b \in DOMAIN next
    /\ check_aabb_intersects(
           next[a].transform, next[b].transform,
           half_size(physical_colliders_2d[a], next[a].transform),
           half_size(physical_colliders_2d[b], next[b].transform))

\* a faulty variant: the normal turned toward side A
contact_normal_toward_a(overlap_x, overlap_y, a_pos, b_pos) ==
    IF overlap_x < overlap_y
    THEN IF a_pos[1] < b_pos[1] THEN <<-1, 0>> ELSE <<1, 0>>
    ELSE IF a_pos[2] < b_pos[2] THEN <<0, -1>> ELSE <<0, 1>>

\* a faulty variant: equal overlaps resolved along X
contact_normal_x_on_tie(overlap_x, overlap_y, a_pos, b_pos) ==
    IF overlap_x <= overlap_y
    THEN IF a_pos[1] < b_pos[1] THEN <<1, 0>> ELSE <<-1, 0>>
    ELSE IF a_pos[2] < b_pos[2] THEN <<0, 1>> ELSE <<0, -1>>

\* collision.rs:80-92
contact_normal(overlap_x, overlap_y, a_pos, b_pos) ==
    IF overlap_x < overlap_y
    THEN IF a_pos[1] < b_pos[1] THEN <<1, 0>> ELSE <<-1, 0>>
    ELSE IF a_pos[2] < b_pos[2] THEN <<0, 1>> ELSE <<0, -1>>

\* collision.rs:94-98
contact_penetration(overlap_x, overlap_y) ==
    IF overlap_x < overlap_y THEN overlap_x ELSE overlap_y

\* collision.rs:67-113, the contact of the ordered pair (a, b)
\* a faulty variant: each side recorded with the other side's area
collision_pair_crossed_areas(next, a, b) ==
    LET a_next == next[a]
        b_next == next[b]
        a_half_size == half_size(physical_colliders_2d[a], a_next.transform)
        b_half_size == half_size(physical_colliders_2d[b], b_next.transform)
        a_min == VSub(a_next.transform.position, a_half_size)
        a_max == VAdd(a_next.transform.position, a_half_size)
        b_min == VSub(b_next.transform.position, b_half_size)
        b_max == VAdd(b_next.transform.position, b_half_size)
        overlap_x == Min(a_max[1], b_max[1]) - Max(a_min[1], b_min[1])
        overlap_y == Min(a_max[2], b_max[2]) - Max(a_min[2], b_min[2])
        normal == contact_normal(overlap_x, overlap_y,
                                 a_next.transform.position, b_next.transform.position)
        penetration == contact_penetration(overlap_x, overlap_y)
    IN [entity_a |-> a,
        entity_b |-> b,
        a_area_collider |-> physical_colliders_2d[b].area_id,
        b_area_collider |-> physical_colliders_2d[a].area_id,
        a_size |-> get_size(a_next.transform),
        b_size |-> get_size(b_next.transform),
        next_pos_a |-> a_next.transform.position,
        next_pos_b |-> b_next.transform.position,
        velocity_a |-> a_next.body.velocity,
        velocity_b |-> b_next.body.velocity,
        normal |-> normal,
        penetration |-> penetration]

collision_pair(next, a, b) ==
    LET a_next == next[a]
        b_next == next[b]
        a_half_size == half_size(physical_colliders_2d[a], a_next.transform)
        b_half_size == half_size(physical_colliders_2d[b], b_next.transform)
        a_min == VSub(a_next.transform.position, a_half_size)
        a_max == VAdd(a_next.transform.position, a_half_size)
        b_min == VSub(b_next.transform.position, b_half_size)
        b_max == VAdd(b_next.transform.position, b_half_size)
        overlap_x == Min(a_max[1], b_max[1]) - Max(a_min[1], b_min[1])
        overlap_y == Min(a_max[2], b_max[2]) - Max(a_min[2], b_min[2])
        normal == contact_normal(overlap_x, overlap_y,
                                 a_next.transform.position, b_next.transform.position)
        penetration == contact_penetration(overlap_x, overlap_y)
    IN [entity_a |-> a,
        entity_b |-> b,
        a_area_collider |-> physical_colliders_2d[a].area_id,
        b_area_collider |-> physical_colliders_2d[b].area_id,
        a_size |-> get_size(a_next.transform),
        b_size |-> get_size(b_next.transform),
        next_pos_a |-> a_next.transform.position,
        next_pos_b |-> b_next.transform.position,
        velocity_a |-> a_next.body.velocity,
        velocity_b |-> b_next.body.velocity,
        normal |-> normal,
        penetration |-> penetration]

\* the orders in which a HashMap may hand out the keys S
Orders(S) ==
    {o \in [1..Cardinality(S) -> S] : \A i, j \in DOMAIN o : i # j => o[i] # o[j]}

\* collision.rs:27-121, with the map iterated in the order `order`
collision_system(next, order) ==
    LET n == Len(order)
        pairs == [k \in 1..(n * n) |->
                     <<order[((k - 1) \div n) + 1], order[((k - 1) % n) + 1]>>]
        hit(p) == pair_collides(next, p[1], p[2])
        hits == SelectSeq(pairs, hit)
    IN [k \in 1..Len(hits) |-> collision_pair(next, hits[k][1], hits[k][2])]

\* ---------------------------------------------------------- resolver
\* World::get_area_by_info(area, AreaInfo{parent, Physics})
has_area(area, parent) ==
    /\ parent \in DOMAIN physical_colliders_2d
    /\ physical_colliders_2d[parent].area_id = area

\* collision.rs:159-184, the unwraps of one contact
resolve_lookups_ok(col) ==
    /\ has_area(col.a_area_collider, col.entity_a)
    /\ has_area(col.b_area_collider, col.entity_b)
    /\ col.entity_b \in Bodies
    /\ col.entity_a \in Bodies
    /\ col.entity_a \in DOMAIN transforms_2d

\* collision.rs:187
masks_overlap(col) ==
    BitAnd(physical_colliders_2d[col.entity_a].masks,
           physical_colliders_2d[col.entity_b].layers) # 0

\* collision.rs:194-197, 213-216: the correction of one contact
\* a faulty variant: the whole MTV on side A
mtv_rigid_rigid_full(col) ==
    <<col.normal[1] * col.penetration, col.normal[2] * col.penetration>>

mtv_rigid_rigid(col) ==
    <<Half(col.normal[1] * col.penetration), Half(col.normal[2] * col.penetration)>>

mtv_rigid_static(col) ==
    <<col.normal[1] * col.penetration, col.normal[2] * col.penetration>>

\* a faulty variant: the threshold forgotten
above_slop_no_threshold(mtv) == mtv[1] > 0 \/ mtv[2] > 0

\* collision.rs:200, 219
above_slop(mtv) == mtv[1] > slop \/ mtv[2] > slop

\* a faulty variant: the velocity reflected on the normal
slide_reflecting(velocity, normal) ==
    VSub(velocity, VScale(2 * Dot(velocity, normal), normal))

\* collision.rs:206-210, 225-229
slide(velocity, normal) ==
    LET dot == Dot(velocity, normal)
    IN IF dot # 0 THEN VSub(velocity, VScale(dot, normal)) ELSE velocity

\* a faulty variant: side A's body type not looked at
resolve_branch_any_a(col) ==
    LET b_is_rigid == physics_bodies_2d[col.entity_b].body_type = Rigid
        b_is_static == physics_bodies_2d[col.entity_b].body_type = Static
    IN IF b_is_rigid /\ masks_overlap(col) THEN "rigid_rigid"
       ELSE IF b_is_static /\ masks_overlap(col) THEN "rigid_static"
       ELSE "none"

\* collision.rs:192, 211: which branch a contact takes
\* a faulty variant: a Kinematic side B corrected like a Static one
resolve_branch_kinematic_b(col) ==
    LET a_is_rigid == physics_bodies_2d[col.entity_a].body_type = Rigid
        b_is_rigid == physics_bodies_2d[col.entity_b].body_type = Rigid
        b_is_static == physics_bodies_2d[col.entity_b].body_type \in {Static, Kinematic}
    IN IF a_is_rigid /\ b_is_rigid /\ masks_overlap(col) THEN "rigid_rigid"
       ELSE IF a_is_rigid /\ b_is_static /\ masks_overlap(col) THEN "rigid_static"
       ELSE "none"

resolve_branch(col) ==
    LET a_is_rigid == physics_bodies_2d[col.entity_a].body_type = Rigid
        b_is_rigid == physics_bodies_2d[col.entity_b].body_type = Rigid
        b_is_static == physics_bodies_2d[col.entity_b].body_type = Static
    IN IF a_is_rigid /\ b_is_rigid /\ masks_overlap(col) THEN "rigid_rigid"
       ELSE IF a_is_rigid /\ b_is_static /\ masks_overlap(col) THEN "rigid_static"
       ELSE "none"

\* collision.rs:186-230: side A's position and velocity after one contact
resolve_position(col) ==
    LET pos == transforms_2d[col.entity_a].position
        branch == resolve_branch(col)
        mtv == IF branch = "rigid_rigid" THEN mtv_rigid_rigid(col)
               ELSE mtv_rigid_static(col)
    IN IF branch # "none" /\ above_slop(mtv) THEN VSub(pos, mtv) ELSE pos

resolve_velocity(col) ==
    LET v == physics_bodies_2d[col.entity_a].velocity
    IN IF resolve_branch(col) # "none" THEN slide(v, col.normal) ELSE v


\* ------------------------------------------------- Engine::update
\* the frame times about_to_wait may measure: 0.01 s, 1/60 s, 1/30 s
DtChoices == {TicksPerSecond \div 100, TicksPerSecond \div 60, TicksPerSecond \div 30}

\* engine.rs:164
incremented_dt == dt \div PhysicsIterationsPerFrame

\* engine.rs:156-161: update is entered and ENGINE_update(dt) is called
update_begin ==
    /\ pc = "idle" /\ ~panicked /\ frames < MaxFrames
    /\ \E d \in DtChoices : dt' = d /\ elapsed' = elapsed + d
    /\ pc' = "update"
    /\ iter' = 0
    /\ frames' = frames + 1
    /\ UNCHANGED <<world, collisions, ri, delivered, collisions_table, panicked,
                   substeps, created, commands, lua_call, undrained>>
    /\ UNCHANGED event_loop

\* a faulty variant: the predicted transforms stored before the detection
update_detect_storing ==
    /\ pc = "update" /\ ~panicked
    /\ LET next == transform_system_calculate_intended_position(incremented_dt)
       IN /\ \E order \in Orders(DOMAIN physical_colliders_2d) :
                collisions' = collision_system(next, order)
          /\ transforms_2d' =
                [e \in DOMAIN transforms_2d |->
                    IF e \in Bodies THEN next[e].transform ELSE transforms_2d[e]]
    /\ ri' = 1
    /\ pc' = "resolve"
    /\ substeps' = substeps + 1
    /\ UNCHANGED <<physics_bodies_2d, physical_colliders_2d, inactive_colliders,
                   next_entity, dt, iter, delivered, collisions_table, panicked,
                   frames, elapsed, created, commands, lua_call, undrained>>
    /\ UNCHANGED event_loop

\* engine.rs:166-170: the prediction and the detection of one sub-step
update_detect ==
    /\ pc = "update" /\ ~panicked
    /\ \E order \in Orders(DOMAIN physical_colliders_2d) :
          collisions' = collision_system(
              transform_system_calculate_intended_position(incremented_dt), order)
    /\ ri' = 1
    /\ pc' = "resolve"
    /\ substeps' = substeps + 1
    /\ UNCHANGED <<world, dt, iter, delivered, collisions_table, panicked, frames,
                   elapsed, created, commands, lua_call, undrained>>
    /\ UNCHANGED event_loop

\* engine.rs:171, collision.rs:157-231: resolve_collisions at one contact
update_resolve ==
    /\ pc = "resolve" /\ ~panicked /\ ri <= Len(collisions)
    /\ LET col == collisions[ri]
       IN IF resolve_lookups_ok(col)
          THEN /\ transforms_2d' =
                     [transforms_2d EXCEPT
                        ![col.entity_a].position = resolve_position(col)]
               /\ physics_bodies_2d' =
                     [physics_bodies_2d EXCEPT
                        ![col.entity_a].velocity = resolve_velocity(col)]
               /\ UNCHANGED panicked
          ELSE /\ panicked' = TRUE
               /\ UNCHANGED <<transforms_2d, physics_bodies_2d>>
    /\ ri' = ri + 1
    /\ UNCHANGED <<physical_colliders_2d, inactive_colliders, next_entity, pc, dt,
                   iter, collisions, delivered, collisions_table, history>>
    /\ UNCHANGED event_loop

\* LuaExtendedExecutor::rust_collisions_to_lua_2d: one record for each contact,
\* in the order of the list
rust_collisions_to_lua_2d(cs) ==
    [i \in 1..Len(cs) |->
        [entity_a |-> cs[i].entity_a, entity_b |-> cs[i].entity_b,
         collider_a |-> cs[i].a_area_collider, collider_b |-> cs[i].b_area_collider,
         size_a |-> cs[i].a_size, size_b |-> cs[i].b_size,
         position_a |-> cs[i].next_pos_a, position_b |-> cs[i].next_pos_b,
         velocity_a |-> cs[i].velocity_a, velocity_b |-> cs[i].velocity_b,
         normal |-> cs[i].normal, penetration |-> cs[i].penetration]]

\* a faulty variant: the list handed over while resolve_collisions is at work
update_on_collision_early ==
    /\ pc = "resolve" /\ ~panicked
    /\ pc' = "on_collision"
    /\ collisions_table' = rust_collisions_to_lua_2d(collisions)
    /\ delivered' = delivered + 1
    /\ UNCHANGED <<world, dt, iter, collisions, ri, panicked, history>>
    /\ UNCHANGED event_loop

\* engine.rs:172-179: the contact list goes to ENGINE_on_collision
update_on_collision ==
    /\ pc = "resolve" /\ ~panicked /\ ri > Len(collisions)
    /\ pc' = "on_collision"
    /\ collisions_table' = rust_collisions_to_lua_2d(collisions)
    /\ delivered' = delivered + 1
    /\ UNCHANGED <<world, dt, iter, collisions, ri, panicked, history>>
    /\ UNCHANGED event_loop

\* transform.rs:48-53
transform_system_physics(d) ==
    [entity \in Bodies |->
        integrate(physics_bodies_2d[entity], transforms_2d[entity], d)]

\* engine.rs:181-184: the integration, then ENGINE_after_physics is called
update_integrate ==
    /\ pc = "on_collision" /\ ~panicked
    /\ IF Bodies \subseteq DOMAIN transforms_2d
       THEN LET after == transform_system_physics(incremented_dt)
            IN /\ physics_bodies_2d' = [e \in Bodies |-> after[e].body]
               /\ transforms_2d' =
                     [e \in DOMAIN transforms_2d |->
                        IF e \in Bodies THEN after[e].transform ELSE transforms_2d[e]]
               /\ undrained' =
                     [e \in DOMAIN undrained |->
                        IF physics_bodies_2d[e].body_type = Rigid
                        THEN Zero2 ELSE undrained[e]]
               /\ UNCHANGED panicked
       ELSE /\ panicked' = TRUE
            /\ UNCHANGED <<physics_bodies_2d, transforms_2d, undrained>>
    /\ pc' = "after_physics"
    /\ iter' = iter + 1
    /\ UNCHANGED <<physical_colliders_2d, inactive_colliders, next_entity, dt,
                   collisions, ri, delivered, collisions_table, frames, elapsed,
                   substeps, created, commands, lua_call>>
    /\ UNCHANGED event_loop

\* World::clear_forces
clear_forces ==
    [e \in Bodies |-> [physics_bodies_2d[e] EXCEPT !.force_accumulator = Zero2]]

\* engine.rs:165, 185-191: the next round of the loop or, after the last one,
\* clear_forces and the return to the event loop
update_end ==
    /\ pc = "after_physics" /\ ~panicked
    /\ IF iter < PhysicsIterationsPerFrame
       THEN /\ pc' = "update"
            /\ UNCHANGED physics_bodies_2d
       ELSE /\ pc' = "idle"
            /\ physics_bodies_2d' = clear_forces
    /\ collisions' = <<>>
    /\ collisions_table' = <<>>
    /\ ri' = 1
    /\ UNCHANGED <<transforms_2d, physical_colliders_2d, inactive_colliders,
                   next_entity, dt, iter, delivered, panicked, history>>
    /\ UNCHANGED event_loop


\* ------------------------------------------------ scripting commands
(* The commands setup() registers for Lua. Lua runs only inside a callback  *)
(* of the engine: ENGINE_load and ENGINE_input_event between two updates    *)
(* (pc = "idle"), ENGINE_update (pc = "update"), ENGINE_on_collision and    *)
(* ENGINE_after_physics inside the loop of update.                          *)
InCallback == pc \in {"idle", "update", "on_collision", "after_physics"}

\* Entity(0) is never handed out by World::new_entity
NoEntity == 0
CommandIds == Bodies \cup {NoEntity}

\* a call of a script into the engine: the command, its id argument and what
\* it returned to the script
LuaCall(op, id, result) == [op |-> op, id |-> id, result |-> result]

\* lua_element.get(field).unwrap_or(default)
get_or(t, field, default) == IF field \in DOMAIN t THEN t[field] ELSE default

\* the spec tables create_body is called with
CreateFilters == {[masks |-> 1, layers |-> 1], [masks |-> 1, layers |-> 2]}
CreateSpecs ==
    {[x |-> px, type |-> ty, enabled |-> en, masks |-> f.masks, layers |-> f.layers,
      animations |-> 1] :
        px \in {0, 1}, ty \in {0, 1, 2}, en \in BOOLEAN, f \in CreateFilters}
    \cup {[type |-> 0, enabled |-> TRUE], [animations |-> 1]}

\* engine.rs:306-442
create_body ==
    /\ InCallback /\ ~panicked /\ Cardinality(Bodies) < MaxBodies
    /\ \E lua_element \in CreateSpecs :
        LET x == get_or(lua_element, "x", 0) * WorldUnit
            y == get_or(lua_element, "y", 0) * WorldUnit
            width == get_or(lua_element, "width", 1) * WorldUnit
            height == get_or(lua_element, "height", 1) * WorldUnit
            n_animations == get_or(lua_element, "animations", 0)
            entity == next_entity + 1
            \* one sprite sheet entity for each animation of the table
            after_sprites == entity + n_animations
            enabled == get_or(lua_element, "enabled", FALSE)
            collider == after_sprites + 1
            half_extents == <<Half(width), Half(height)>>
        IN IF n_animations = 0
           THEN \* engine.rs:365, animations_map.get(&state).unwrap()
                /\ panicked' = TRUE
                /\ next_entity' = after_sprites
                /\ lua_call' = LuaCall("create_body", NoEntity, <<>>)
                /\ UNCHANGED <<physics_bodies_2d, transforms_2d,
                               physical_colliders_2d, created, undrained>>
           ELSE /\ physics_bodies_2d' = physics_bodies_2d @@ (entity :>
                      [body_type |-> BodyType_from(get_or(lua_element, "type", 1)),
                       velocity |-> Zero2,
                       force_accumulator |-> Zero2])
                /\ transforms_2d' = transforms_2d @@ (entity :>
                      [position |-> <<x, y>>, half_extents |-> half_extents,
                       scale |-> <<1, 1>>])
                /\ created' = created @@ (entity :>
                      [position |-> <<x, y>>, velocity |-> Zero2])
                /\ undrained' = undrained @@ (entity :> Zero2)
                /\ IF enabled
                   THEN /\ physical_colliders_2d' = physical_colliders_2d @@
                              (entity :> [area_id |-> collider,
                                          half_extents |-> half_extents,
                                          masks |-> get_or(lua_element, "masks", 0),
                                          layers |-> get_or(lua_element, "layers", 0)])
                        /\ next_entity' = collider
                        /\ lua_call' = LuaCall("create_body", NoEntity,
                                                <<entity, collider>>)
                   ELSE /\ UNCHANGED physical_colliders_2d
                        /\ next_entity' = after_sprites
                        /\ lua_call' = LuaCall("create_body", NoEntity,
                                                <<entity, NoEntity>>)
                /\ UNCHANGED panicked
    /\ UNCHANGED <<inactive_colliders, loop, frames, elapsed, substeps, commands>>
    /\ UNCHANGED event_loop

\* what a command leaves alone besides the bodies and the transforms
CommandFrame ==
    /\ commands' = commands + 1
    /\ UNCHANGED <<physical_colliders_2d, inactive_colliders, next_entity, loop,
                   frames, elapsed, substeps, created>>

\* the forces a command other than apply_force_2d leaves to be integrated
NoForceApplied == UNCHANGED undrained

CommandGuard == InCallback /\ ~panicked /\ commands < MaxCommands

VelocityChoices == {<<5, 0>>}
MoveChoices == {<<HalfUnit, 0>>}
ForceChoices == {<<1, 0>>}
ImpulseChoices == {<<0, 5>>}

\* engine.rs:231-237
set_velocity_2d ==
    /\ CommandGuard
    /\ \E id \in CommandIds, v \in VelocityChoices :
          /\ lua_call' = LuaCall("set_velocity_2d", id, <<>>)
          /\ IF id \in Bodies
             THEN /\ physics_bodies_2d' = [physics_bodies_2d EXCEPT ![id].velocity = v]
                  /\ UNCHANGED panicked
             ELSE /\ panicked' = TRUE
                  /\ UNCHANGED physics_bodies_2d
    /\ UNCHANGED transforms_2d
    /\ NoForceApplied
    /\ CommandFrame
    /\ UNCHANGED event_loop

\* engine.rs:273-276
apply_move_2d ==
    /\ CommandGuard
    /\ \E id \in CommandIds, d \in MoveChoices :
          /\ lua_call' = LuaCall("apply_move_2d", id, <<>>)
          /\ IF id \in Bodies
             THEN /\ transforms_2d' = [transforms_2d EXCEPT ![id].position = VAdd(@, d)]
                  /\ UNCHANGED panicked
             ELSE /\ panicked' = TRUE
                  /\ UNCHANGED transforms_2d
    /\ UNCHANGED physics_bodies_2d
    /\ NoForceApplied
    /\ CommandFrame
    /\ UNCHANGED event_loop

\* PhysicsBody::apply_force
apply_force(body, f) == [body EXCEPT !.force_accumulator = VAdd(@, f)]

\* PhysicsBody::apply_impulse
apply_impulse(body, j) ==
    IF body.body_type = Static THEN body
    ELSE [body EXCEPT !.velocity = VAdd(@, <<j[1] \div Mass, j[2] \div Mass>>)]

\* engine.rs:213-221
apply_force_2d ==
    /\ CommandGuard
    /\ \E id \in CommandIds, f \in ForceChoices :
          /\ lua_call' = LuaCall("apply_force_2d", id, <<>>)
          /\ IF id \in Bodies
             THEN /\ physics_bodies_2d' =
                        [physics_bodies_2d EXCEPT ![id] = apply_force(@, f)]
                  /\ undrained' = [undrained EXCEPT ![id] = VAdd(@, f)]
                  /\ UNCHANGED panicked
             ELSE /\ panicked' = TRUE
                  /\ UNCHANGED <<physics_bodies_2d, undrained>>
    /\ UNCHANGED transforms_2d
    /\ CommandFrame
    /\ UNCHANGED event_loop

\* engine.rs:223-229
apply_impulse_2d ==
    /\ CommandGuard
    /\ \E id \in CommandIds, j \in ImpulseChoices :
          /\ lua_call' = LuaCall("apply_impulse_2d", id, <<>>)
          /\ IF id \in Bodies
             THEN /\ physics_bodies_2d' =
                        [physics_bodies_2d EXCEPT ![id] = apply_impulse(@, j)]
                  /\ UNCHANGED panicked
             ELSE /\ panicked' = TRUE
                  /\ UNCHANGED physics_bodies_2d
    /\ UNCHANGED transforms_2d
    /\ NoForceApplied
    /\ CommandFrame
    /\ UNCHANGED event_loop

\* a faulty variant: an unknown id answered with a zero velocity
get_velocity_2d_or_zero ==
    /\ CommandGuard
    /\ \E id \in CommandIds :
          lua_call' = LuaCall("get_velocity_2d", id,
                              IF id \in Bodies THEN physics_bodies_2d[id].velocity
                              ELSE Zero2)
    /\ UNCHANGED <<physics_bodies_2d, transforms_2d, panicked>>
    /\ NoForceApplied
    /\ CommandFrame
    /\ UNCHANGED event_loop

\* engine.rs:247-258
get_velocity_2d ==
    /\ CommandGuard
    /\ \E id \in CommandIds :
          IF id \in Bodies
          THEN /\ lua_call' = LuaCall("get_velocity_2d", id, physics_bodies_2d[id].velocity)
               /\ UNCHANGED panicked
          ELSE /\ lua_call' = LuaCall("get_velocity_2d", id, <<>>)
               /\ panicked' = TRUE
    /\ UNCHANGED <<physics_bodies_2d, transforms_2d>>
    /\ NoForceApplied
    /\ CommandFrame
    /\ UNCHANGED event_loop

\* engine.rs:260-271
get_position_2d ==
    /\ CommandGuard
    /\ \E id \in CommandIds :
          IF id \in Bodies
          THEN /\ lua_call' = LuaCall("get_position_2d", id, transforms_2d[id].position)
               /\ UNCHANGED panicked
          ELSE /\ lua_call' = LuaCall("get_position_2d", id, <<>>)
               /\ panicked' = TRUE
    /\ UNCHANGED <<physics_bodies_2d, transforms_2d>>
    /\ NoForceApplied
    /\ CommandFrame
    /\ UNCHANGED event_loop

\* toggle_area(entity_id, active): a collider toggled off leaves the set the
\* detector iterates, and comes back when toggled on
toggle_area ==
    /\ CommandGuard
    /\ \E id \in Bodies, active \in BOOLEAN :
        /\ lua_call' = LuaCall("toggle_area", id, <<>>)
        /\ IF active /\ id \in DOMAIN inactive_colliders
            THEN /\ physical_colliders_2d' =
                       physical_colliders_2d @@ (id :> inactive_colliders[id])
                 /\ inactive_colliders' =
                       [p \in DOMAIN inactive_colliders \ {id} |-> inactive_colliders[p]]
            ELSE IF ~active /\ id \in DOMAIN physical_colliders_2d
            THEN /\ inactive_colliders' =
                       inactive_colliders @@ (id :> physical_colliders_2d[id])
                 /\ physical_colliders_2d' =
                       [p \in DOMAIN physical_colliders_2d \ {id} |->
                          physical_colliders_2d[p]]
            ELSE UNCHANGED <<physical_colliders_2d, inactive_colliders>>
    /\ commands' = commands + 1
    /\ UNCHANGED <<physics_bodies_2d, transforms_2d, next_entity, loop, panicked,
                   frames, elapsed, substeps, created, undrained>>
    /\ UNCHANGED event_loop

(* Engine::new: the frame rate of the configuration and the frame timer.    *)
\* Option: None or Some(x)
None == <<>>
Some(x) == <<x>>
\* config.fps is "auto" (None) or a number of frames per second
FpsChoices == {None, Some(100), Some(50)}
\* Duration::from_millis, in ticks
from_millis(ms) == (ms * TicksPerSecond) \div 1000
target_rate == IF fps_opt = None THEN None ELSE Some(from_millis(1000 \div fps_opt[1]))
fps_specified == fps_opt # None
unwrap_or_default(d) == IF d = None THEN 0 ELSE d[1]
Poll == <<"Poll">>
WaitUntil(t) == <<"WaitUntil", t>>

\* the engine is constructed at instant 0 of the clock
EngineNew(fps) ==
    /\ clock = 0
    /\ fps_opt = fps
    /\ last_frame = clock - unwrap_or_default(target_rate)
    /\ control_flow = Poll

Init ==
    /\ physics_bodies_2d = <<>>
    /\ transforms_2d = <<>>
    /\ physical_colliders_2d = <<>>
    /\ inactive_colliders = <<>>
    /\ next_entity = 0
    /\ pc = "idle" /\ dt = 0 /\ iter = 0 /\ collisions = <<>> /\ ri = 1
    /\ delivered = 0 /\ collisions_table = <<>>
    /\ panicked = FALSE
    /\ frames = 0 /\ elapsed = 0 /\ substeps = 0 /\ commands = 0
    /\ lua_call = LuaCall("none", NoEntity, <<>>)
    /\ created = <<>>
    /\ undrained = <<>>
    /\ EngineNew(None)

Next ==
    \/ create_body
    \/ set_velocity_2d
    \/ apply_move_2d
    \/ apply_force_2d
    \/ apply_impulse_2d
    \/ get_velocity_2d
    \/ get_position_2d
    \/ toggle_area
    \/ update_begin
    \/ update_detect
    \/ update_resolve
    \/ update_on_collision
    \/ update_integrate
    \/ update_end

Spec == Init /\ [][Next]_vars

\* ------------------------------------------- the physics pipeline alone
(* SpecPhys runs the sub-steps of update on a world of two bodies with      *)
(* colliders, as create_body and set_velocity_2d leave it, drawn from the   *)
(* sets below; no scripting command runs in between.                        *)
PhysPositions ==
    {<<0, 0>>, <<2 * HalfUnit, 0>>, <<3 * HalfUnit, 0>>, <<0, 3 * HalfUnit>>,
     <<3 * HalfUnit, 3 * HalfUnit>>, <<6 * HalfUnit, 0>>}
PhysShapes1 ==
    {[half_extents |-> <<HalfUnit, HalfUnit>>, scale |-> <<1, 1>>],
     [half_extents |-> <<WorldUnit, WorldUnit>>, scale |-> <<1, 1>>]}
PhysShapes2 ==
    {[half_extents |-> <<HalfUnit, HalfUnit>>, scale |-> <<1, 1>>],
     [half_extents |-> <<HalfUnit, HalfUnit>>, scale |-> <<-2, -2>>]}
PhysVelocities1 == {<<0, 0>>, <<5, 0>>}
PhysVelocities2 == {<<0, 0>>, <<-5, -5>>}
PhysFilters == {[masks |-> 1, layers |-> 1], [masks |-> 1, layers |-> 2]}

PhysBody(t, v) == [body_type |-> t, velocity |-> v, force_accumulator |-> Zero2]
PhysTransform(p, s) ==
    [position |-> p, half_extents |-> s.half_extents, scale |-> s.scale]
PhysCollider(id, s, f) ==
    [area_id |-> id, half_extents |-> s.half_extents,
     masks |-> f.masks, layers |-> f.layers]

InitPhys ==
    /\ \E t1, t2 \in BodyTypes, v1 \in PhysVelocities1, v2 \in PhysVelocities2 :
          /\ physics_bodies_2d = (1 :> PhysBody(t1, v1)) @@ (3 :> PhysBody(t2, v2))
          /\ \E p2 \in PhysPositions, s1 \in PhysShapes1, s2 \in PhysShapes2 :
                /\ transforms_2d =
                       (1 :> PhysTransform(Zero2, s1)) @@ (3 :> PhysTransform(p2, s2))
                /\ created = (1 :> [position |-> Zero2, velocity |-> v1])
                                @@ (3 :> [position |-> p2, velocity |-> v2])
                /\ \E f1, f2 \in PhysFilters :
                      physical_colliders_2d =
                          (1 :> PhysCollider(2, s1, f1)) @@ (3 :> PhysCollider(4, s2, f2))
    /\ inactive_colliders = <<>>
    /\ next_entity = 4
    /\ pc = "idle" /\ dt = 0 /\ iter = 0 /\ collisions = <<>> /\ ri = 1
    /\ delivered = 0 /\ collisions_table = <<>>
    /\ panicked = FALSE
    /\ frames = 0 /\ elapsed = 0 /\ substeps = 0 /\ commands = 0
    /\ lua_call = LuaCall("none", NoEntity, <<>>)
    /\ undrained = (1 :> Zero2) @@ (3 :> Zero2)
    /\ EngineNew(None)

NextPhys ==
    \/ update_begin
    \/ update_detect
    \/ update_resolve
    \/ update_on_collision
    \/ update_integrate
    \/ update_end

SpecPhys == InitPhys /\ [][NextPhys]_vars

(* The event loop: the engine is constructed over two bodies at rest that   *)
(* overlap, the clock runs, and winit calls about_to_wait whenever the loop *)
(* is about to block.                                                       *)
MaxClock == 24
ClockSteps == {2, 6}
\* the time that may pass between two reads of the clock in about_to_wait
ClockGaps == {0, 1}

time_passes ==
    /\ \E d \in ClockSteps : clock + d <= MaxClock /\ clock' = clock + d
    /\ UNCHANGED <<world, loop, panicked, history, last_frame, fps_opt, control_flow>>

about_to_wait ==
    /\ pc = "idle" /\ ~panicked
    /\ LET now == clock
           elapsed_dt == clock - last_frame
           target == last_frame + unwrap_or_default(target_rate)
       IN IF fps_specified /\ now < target
          THEN /\ control_flow' = WaitUntil(target)
               /\ UNCHANGED <<world, loop, panicked, history, clock, last_frame, fps_opt>>
          ELSE /\ frames < MaxFrames
               /\ \E gap \in ClockGaps :
                     /\ clock + gap <= MaxClock
                     /\ clock' = clock + gap
                     /\ last_frame' = clock + gap
               /\ dt' = elapsed_dt /\ elapsed' = elapsed + elapsed_dt
               /\ pc' = "update"
               /\ iter' = 0
               /\ frames' = frames + 1
               /\ control_flow' = Poll
               /\ UNCHANGED <<world, collisions, ri, delivered, collisions_table,
                              panicked, substeps, created, commands, lua_call,
                              undrained, fps_opt>>

InitLoop ==
    /\ LET s == [half_extents |-> <<WorldUnit, WorldUnit>>, scale |-> <<1, 1>>]
           f == [masks |-> 1, layers |-> 1]
           p2 == <<3 * HalfUnit, 0>>
       IN /\ physics_bodies_2d =
                 (1 :> PhysBody(Rigid, Zero2)) @@ (3 :> PhysBody(Static, Zero2))
          /\ transforms_2d = (1 :> PhysTransform(Zero2, s)) @@ (3 :> PhysTransform(p2, s))
          /\ created = (1 :> [position |-> Zero2, velocity |-> Zero2])
                          @@ (3 :> [position |-> p2, velocity |-> Zero2])
          /\ physical_colliders_2d =
                 (1 :> PhysCollider(2, s, f)) @@ (3 :> PhysCollider(4, s, f))
    /\ inactive_colliders = <<>>
    /\ next_entity = 4
    /\ pc = "idle" /\ dt = 0 /\ iter = 0 /\ collisions = <<>> /\ ri = 1
    /\ delivered = 0 /\ collisions_table = <<>>
    /\ panicked = FALSE
    /\ frames = 0 /\ elapsed = 0 /\ substeps = 0 /\ commands = 0
    /\ lua_call = LuaCall("none", NoEntity, <<>>)
    /\ undrained = (1 :> Zero2) @@ (3 :> Zero2)
    /\ \E fps \in FpsChoices : EngineNew(fps)

NextLoop ==
    \/ time_passes
    \/ about_to_wait
    \/ update_detect
    \/ update_resolve
    \/ update_on_collision
    \/ update_integrate
    \/ update_end

SpecLoop == InitLoop /\ [][NextLoop]_vars

\* the halvings of a run are exact, and every body has its transform
PhysSane ==
    /\ \A i \in DOMAIN collisions : collisions[i].penetration % 2 = 0 \/ frames = MaxFrames
    /\ Bodies \subseteq DOMAIN transforms_2d


\* ---------------------------------------------------------------- claims
\* the contact resolve_collisions is at, and its two sides
AtContact == pc = "resolve" /\ ri <= Len(collisions)
TypeOf(e) == physics_bodies_2d[e].body_type
PositionOf(e) == transforms_2d[e].position
VelocityOf(e) == physics_bodies_2d[e].velocity
FullMtv(col) == VScale(col.penetration, col.normal)
HalfMtv(col) == <<Half(FullMtv(col)[1]), Half(FullMtv(col)[2])>>
ExceedsSlop(m) == Abs(m[1]) > slop \/ Abs(m[2]) > slop
BelowSlop(m) == Abs(m[1]) < slop /\ Abs(m[2]) < slop
MasksMeet(a, b) ==
    BitAnd(physical_colliders_2d[a].masks, physical_colliders_2d[b].layers) # 0

\* the step length the specification fixes, 1/60 s
FixedStep == TicksPerSecond \div 60

(* C1: fixed-step tick driver. Every sub-step advances the simulation by    *)
(* exactly the fixed step s, and after every frame the number of sub-steps  *)
(* run so far is floor((d1 + ... + dk) / s), the remainder staying in the   *)
(* accumulator.                                                             *)
C1_FixedStepTickDriver ==
    /\ pc \in {"resolve", "on_collision", "after_physics"} => incremented_dt = FixedStep
    /\ pc = "idle" => substeps = elapsed \div FixedStep

(* C2: a Rigid-vs-Static contact whose masks overlap and whose MTV exceeds  *)
(* the slop in magnitude on some axis displaces the rigid side A by the     *)
(* full MTV, whichever of the four normals the contact has.                 *)
C2_FullMtvForEveryNormal ==
    [][\A i \in DOMAIN collisions :
          (/\ AtContact /\ i = ri
           /\ TypeOf(collisions[i].entity_a) = Rigid
           /\ TypeOf(collisions[i].entity_b) = Static
           /\ MasksMeet(collisions[i].entity_a, collisions[i].entity_b)
           /\ ExceedsSlop(FullMtv(collisions[i])))
          => transforms_2d'[collisions[i].entity_a].position =
                VSub(PositionOf(collisions[i].entity_a), FullMtv(collisions[i]))]_vars

\* the correction a contact's body types call for: half the MTV between two
\* rigid bodies, the full MTV of a rigid body against a static one
AppliedMtv(col) ==
    IF TypeOf(col.entity_b) = Rigid THEN HalfMtv(col) ELSE FullMtv(col)
RigidContact(col) ==
    /\ TypeOf(col.entity_a) = Rigid
    /\ TypeOf(col.entity_b) \in {Rigid, Static}

(* C3: slop threshold. A Rigid-vs-Rigid or Rigid-vs-Static contact whose    *)
(* applied MTV is below the slop in magnitude on both axes leaves the       *)
(* positions of both entities unchanged, though the contact is in the list. *)
C3_SubSlopLeavesPositions ==
    [][\A i \in DOMAIN collisions :
          (/\ AtContact /\ i = ri
           /\ RigidContact(collisions[i])
           /\ BelowSlop(AppliedMtv(collisions[i])))
          => /\ transforms_2d'[collisions[i].entity_a].position =
                    PositionOf(collisions[i].entity_a)
             /\ transforms_2d'[collisions[i].entity_b].position =
                    PositionOf(collisions[i].entity_b)]_vars

\* a sub-slop contact with a real penetration and meeting masks was resolved
C3_Witness ==
    /\ pc = "resolve" /\ ri > 1
    /\ LET col == collisions[ri - 1]
       IN /\ RigidContact(col)
          /\ MasksMeet(col.entity_a, col.entity_b)
          /\ col.penetration > 0
          /\ col.normal \in {<<1, 0>>, <<0, 1>>}
          /\ BelowSlop(AppliedMtv(col))

(* C4: static immovability in resolution. resolve_collisions never changes  *)
(* the position or the velocity of a Static entity, on side A or on side B, *)
(* and a Rigid-vs-Static contact changes nothing but the rigid body.        *)
C4_StaticUntouchedByResolver ==
    [][pc = "resolve" =>
          /\ \A e \in Bodies :
                TypeOf(e) = Static =>
                    /\ transforms_2d'[e].position = PositionOf(e)
                    /\ physics_bodies_2d'[e].velocity = VelocityOf(e)
          /\ \A i \in DOMAIN collisions :
                (/\ i = ri
                 /\ TypeOf(collisions[i].entity_a) = Rigid
                 /\ TypeOf(collisions[i].entity_b) = Static)
                => \A e \in Bodies \ {collisions[i].entity_a} :
                      /\ transforms_2d'[e].position = PositionOf(e)
                      /\ physics_bodies_2d'[e].velocity = VelocityOf(e)]_vars

\* both contacts of a rigid and a static body were resolved, static on side A
\* in one and on side B in the other, and the rigid body was moved and slowed
C4_Witness ==
    /\ pc = "resolve" /\ ri = 3 /\ Len(collisions) = 2
    /\ \E i, j \in {1, 2} :
          /\ TypeOf(collisions[i].entity_a) = Static
          /\ TypeOf(collisions[i].entity_b) = Rigid
          /\ TypeOf(collisions[j].entity_a) = Rigid
          /\ TypeOf(collisions[j].entity_b) = Static
          /\ PositionOf(collisions[j].entity_a) # created[collisions[j].entity_a].position
          /\ VelocityOf(collisions[j].entity_a) # created[collisions[j].entity_a].velocity

(* C5: a Static body never moves and never receives a velocity change: its  *)
(* position and velocity stay those it was created with, whatever commands  *)
(* and sub-steps run.                                                       *)
C5_StaticKeepsCreatedState ==
    \A e \in Bodies :
        TypeOf(e) = Static =>
            /\ PositionOf(e) = created[e].position
            /\ VelocityOf(e) = created[e].velocity


\* the predicted box of a collider: its centre and its half extents
PredictedCentre(e) ==
    transform_system_calculate_intended_position(incremented_dt)[e].transform.position
BoxHalf(collider, e) ==
    <<collider.half_extents[1] * Abs(transforms_2d[e].scale[1]),
      collider.half_extents[2] * Abs(transforms_2d[e].scale[2])>>
AxisOverlap(ca, ha, cb, hb, k) == Abs(ca[k] - cb[k]) <= ha[k] + hb[k]
BoxesOverlap(a, b) ==
    \A k \in {1, 2} :
        AxisOverlap(PredictedCentre(a), BoxHalf(physical_colliders_2d[a], a),
                    PredictedCentre(b), BoxHalf(physical_colliders_2d[b], b), k)
HasContact(a, b) ==
    \E i \in DOMAIN collisions :
        collisions[i].entity_a = a /\ collisions[i].entity_b = b
\* the detector has just run: the world is the one it read
JustDetected == pc = "resolve" /\ ri = 1
Colliders == DOMAIN physical_colliders_2d
TwoByTwo == <<2 * WorldUnit, 2 * WorldUnit>>
IsAabbExample(col) ==
    /\ col.next_pos_a = <<0, 0>> /\ col.next_pos_b = <<3 * HalfUnit, 0>>
    /\ col.a_size = TwoByTwo /\ col.b_size = TwoByTwo

(* C6: AABB overlap correctness. Two colliders that pass the filters and    *)
(* have predicted entries yield a contact if and only if their boxes        *)
(* (predicted centre +/- half extent x |scale|) overlap on X and on Y,      *)
(* touching included; every contact has penetration >= 0; centres (0,0)     *)
(* and (1.5,0) with size (2,2) give penetration 0.5.                        *)
C6_ContactIffBoxesOverlap ==
    JustDetected =>
        /\ \A a, b \in Colliders \cap Bodies :
              (a # b /\ MasksMeet(a, b) /\ masks_overlap_layers(a, b) # 0)
              => (HasContact(a, b) <=> BoxesOverlap(a, b))
        /\ \A i \in DOMAIN collisions :
              /\ collisions[i].penetration >= 0
              /\ IsAabbExample(collisions[i]) => collisions[i].penetration = HalfUnit

\* the example of the claim was detected
C6_Witness ==
    /\ JustDetected
    /\ \E i \in DOMAIN collisions :
          IsAabbExample(collisions[i]) /\ collisions[i].penetration = HalfUnit

(* C7 as claimed: with two overlapping colliders A and B alone in the       *)
(* world and A.mask & B.layer = 0, the contact set of the sub-step is       *)
(* empty, also when B.mask & A.layer # 0.                                   *)
C7_EmptyContactSet ==
    \A a, b \in Colliders \cap Bodies :
        (/\ JustDetected /\ Colliders = {a, b} /\ a # b
         /\ BoxesOverlap(a, b) /\ ~MasksMeet(a, b))
        => collisions = <<>>

(* C7 as amended: in that world the detector emits no contact with A on     *)
(* side A and B on side B; when B.mask & A.layer # 0 the contact set is     *)
(* not empty, it holds the one record with B on side A and A on side B.     *)
C7_NoContactOnTheMaskedSide ==
    \A a, b \in Colliders \cap Bodies :
        (/\ JustDetected /\ Colliders = {a, b} /\ a # b
         /\ BoxesOverlap(a, b) /\ ~MasksMeet(a, b))
        => /\ ~HasContact(a, b)
           /\ MasksMeet(b, a) => (Len(collisions) = 1 /\ HasContact(b, a))
           /\ ~MasksMeet(b, a) => collisions = <<>>

\* two overlapping colliders filtered in one direction only were detected
C7_Witness ==
    \E a, b \in Colliders \cap Bodies :
        /\ JustDetected /\ Colliders = {a, b} /\ a # b
        /\ BoxesOverlap(a, b) /\ ~MasksMeet(a, b) /\ MasksMeet(b, a)
        /\ Len(collisions) = 1 /\ HasContact(b, a)

\* the colliders of a contact interact
Interacts(col) ==
    /\ col.entity_a \in Colliders /\ col.entity_b \in Colliders
    /\ col.entity_a \notin DOMAIN inactive_colliders
    /\ col.entity_b \notin DOMAIN inactive_colliders
    /\ physical_colliders_2d[col.entity_a].area_id = col.a_area_collider
    /\ physical_colliders_2d[col.entity_b].area_id = col.b_area_collider
    /\ MasksMeet(col.entity_a, col.entity_b)
    /\ masks_overlap_layers(col.entity_a, col.entity_b) # 0
InactiveAreas == {inactive_colliders[p].area_id : p \in DOMAIN inactive_colliders}

RestScene ==
    /\ TypeOf(1) = Rigid /\ TypeOf(3) = Static
    /\ created[1] = [position |-> <<0, 0>>, velocity |-> <<5, 0>>]
    /\ created[3] = [position |-> <<WorldUnit, 0>>, velocity |-> <<0, 0>>]
    /\ get_size(transforms_2d[1]) = <<WorldUnit, WorldUnit>>
    /\ get_size(transforms_2d[3]) = <<WorldUnit, WorldUnit>>
    /\ transforms_2d[3].scale = <<1, 1>>
    /\ MasksMeet(1, 3)
RightEdge(e) == PositionOf(e)[1] + Half(get_size(transforms_2d[e])[1])
LeftEdge(e) == PositionOf(e)[1] - Half(get_size(transforms_2d[e])[1])

(* C9: end-to-end rest. From the scene above, repeated sub-steps bring the  *)
(* rigid body to rest with zero X velocity and its right edge within the    *)
(* slop of the static body's left edge, the static body unmoved: once the   *)
(* rigid body has lost its X velocity, nothing moves it any more, so it is  *)
(* then at that edge.                                                       *)
C9_ComesToRestAtTheEdge ==
    (RestScene /\ pc = "idle" /\ frames >= 1)
    => /\ PositionOf(3) = created[3].position
       /\ VelocityOf(1)[1] = 0 => Abs(LeftEdge(3) - RightEdge(1)) <= slop

(* C10: integration. A body with velocity v, no accumulated force and no    *)
(* contact keeps its velocity over a sub-step of length dt and moves by     *)
(* exactly v * dt.                                                          *)
C10_ZeroForceStepMovesByVDt ==
    [][(pc = "on_collision" /\ pc' = "after_physics")
       => \A e \in Bodies :
             (/\ physics_bodies_2d[e].force_accumulator = Zero2
              /\ \A i \in DOMAIN collisions :
                    collisions[i].entity_a # e /\ collisions[i].entity_b # e)
             => /\ physics_bodies_2d'[e].velocity = VelocityOf(e)
                /\ transforms_2d'[e].position =
                       VAdd(PositionOf(e), Displacement(VelocityOf(e), incremented_dt))]_vars

\* the record a script receives is the contact of the detector
SameContact(rec, col) ==
    /\ rec.entity_a = col.entity_a /\ rec.entity_b = col.entity_b
    /\ rec.collider_a = col.a_area_collider /\ rec.collider_b = col.b_area_collider
    /\ rec.size_a = col.a_size /\ rec.size_b = col.b_size
    /\ rec.position_a = col.next_pos_a /\ rec.position_b = col.next_pos_b
    /\ rec.velocity_a = col.velocity_a /\ rec.velocity_b = col.velocity_b
    /\ rec.normal = col.normal /\ rec.penetration = col.penetration
Delivers == delivered' # delivered

(* C11: collision event delivery. In every sub-step ENGINE_on_collision is  *)
(* called exactly once, after resolve_collisions has gone through the whole *)
(* list; the list is the one the detector produced in this sub-step: the    *)
(* resolver drops nothing from it, also not the contacts it leaves alone,   *)
(* and the table holds one record for each of its contacts, in order.       *)
C11_DeliveredOnceAfterResolution ==
    [][/\ Delivers =>
            /\ pc = "resolve" /\ ri > Len(collisions)
            /\ delivered' = delivered + 1
            /\ Len(collisions_table') = Len(collisions)
            /\ \A i \in DOMAIN collisions :
                  SameContact(collisions_table'[i], collisions[i])
       /\ (pc = "resolve" /\ pc' = "resolve") => collisions' = collisions
       /\ pc' = "resolve" => delivered' + 1 = substeps'
       /\ pc' # "resolve" => delivered' = substeps'
       /\ (pc = "update" /\ pc' = "resolve") =>
             \E order \in Orders(Colliders) :
                 collisions' = collision_system(
                     transform_system_calculate_intended_position(incremented_dt),
                     order)]_vars

\* a script holds a table of two contacts, one of which the resolver left
\* alone for the type of its bodies
C11_Witness ==
    /\ pc = "on_collision" /\ delivered = substeps /\ substeps >= 1
    /\ Len(collisions_table) = 2
    /\ \E i \in DOMAIN collisions :
          /\ SameContact(collisions_table[i], collisions[i])
          /\ resolve_branch(collisions[i]) = "none"

\* the commands that look a body up by the id a script gives
LookupCommands ==
    {"apply_force_2d", "apply_impulse_2d", "apply_move_2d", "set_velocity_2d",
     "get_velocity_2d", "get_position_2d"}
IssuesCommand == commands' = commands + 1

(* C12: lookup errors are fatal. Each of apply_force, apply_impulse,        *)
(* apply_move, set_velocity, get_velocity and get_position called with an   *)
(* id that has no physics body panics: it returns nothing to the script and *)
(* changes no body and no transform.                                        *)
C12_MissingBodyIsFatal ==
    [][(IssuesCommand /\ lua_call'.op \in LookupCommands /\ lua_call'.id \notin Bodies)
       => /\ panicked'
          /\ lua_call'.result = <<>>
          /\ physics_bodies_2d' = physics_bodies_2d
          /\ transforms_2d' = transforms_2d]_vars

\* one of the six commands was called with an unknown id while a body exists
C12_Witness ==
    /\ panicked /\ Bodies # {}
    /\ lua_call.op \in LookupCommands /\ lua_call.id = NoEntity
    /\ lua_call.result = <<>>
    /\ \A e \in Bodies : PositionOf(e) = created[e].position
                         /\ VelocityOf(e) = created[e].velocity

(* C13: configuration defaults. create_body never fails, whichever fields   *)
(* of its table are missing: every call (the only step that takes an id     *)
(* from the entity counter) returns the id of a new body and does not       *)
(* panic.                                                                   *)
C13_CreateBodyNeverFails ==
    [][next_entity' # next_entity
       => /\ ~panicked'
          /\ lua_call'.op = "create_body"
          /\ lua_call'.result # <<>>
          /\ lua_call'.result[1] = next_entity + 1
          /\ lua_call'.result[1] \in DOMAIN physics_bodies_2d']_vars

Sign(x) == IF x > 0 THEN 1 ELSE IF x < 0 THEN -1 ELSE 0
UnitNormals == {<<1, 0>>, <<-1, 0>>, <<0, 1>>, <<0, -1>>}
\* the axis a unit normal lies along
AxisOf(normal) == IF normal[1] # 0 THEN 1 ELSE 2
\* A's predicted centre minus B's, along the normal of the contact
AMinusB(col) ==
    col.next_pos_a[AxisOf(col.normal)] - col.next_pos_b[AxisOf(col.normal)]

(* C14 as claimed: in every contact the unit normal points from side B      *)
(* toward side A: its sign on the separation axis is the sign of A's        *)
(* predicted centre minus B's.                                              *)
C14_NormalFromBTowardA ==
    pc = "resolve" =>
        \A i \in DOMAIN collisions :
            /\ collisions[i].normal \in UnitNormals
            /\ collisions[i].normal[AxisOf(collisions[i].normal)]
                   = Sign(AMinusB(collisions[i]))

(* C14 as amended: in every contact the unit normal points from side A      *)
(* toward side B: on the separation axis it is +1 when A's predicted centre *)
(* is strictly below B's and -1 otherwise, also when the two centres are    *)
(* level on that axis.                                                      *)
C14_NormalFromATowardB ==
    pc = "resolve" =>
        \A i \in DOMAIN collisions :
            /\ collisions[i].normal \in UnitNormals
            /\ collisions[i].normal[AxisOf(collisions[i].normal)]
                   = (IF AMinusB(collisions[i]) < 0 THEN 1 ELSE -1)

\* the two orders of a pair were detected, A left of B in one and right of it
\* in the other
C14_Witness ==
    /\ JustDetected
    /\ \E i, j \in DOMAIN collisions :
          /\ collisions[i].normal = <<1, 0>> /\ AMinusB(collisions[i]) < 0
          /\ collisions[j].normal = <<-1, 0>> /\ AMinusB(collisions[j]) > 0

\* the overlap of the two predicted boxes of a contact along axis k
OverlapOn(col, k) ==
    LET ha == BoxHalf(physical_colliders_2d[col.entity_a], col.entity_a)[k]
        hb == BoxHalf(physical_colliders_2d[col.entity_b], col.entity_b)[k]
    IN Min(col.next_pos_a[k] + ha, col.next_pos_b[k] + hb)
         - Max(col.next_pos_a[k] - ha, col.next_pos_b[k] - hb)

(* C15: minimum-translation axis and tie-break. In every contact the        *)
(* penetration is min(overlap_x, overlap_y); the normal is a unit vector    *)
(* along X when overlap_x < overlap_y and along Y otherwise, so equal       *)
(* overlaps resolve along Y.                                                *)
C15_MinimumTranslationAxis ==
    pc = "resolve" =>
        \A i \in DOMAIN collisions :
            LET col == collisions[i]
                overlap_x == OverlapOn(col, 1)
                overlap_y == OverlapOn(col, 2)
            IN /\ col.penetration = Min(overlap_x, overlap_y)
               /\ col.normal \in UnitNormals
               /\ overlap_x < overlap_y => AxisOf(col.normal) = 1
               /\ overlap_x >= overlap_y => AxisOf(col.normal) = 2

\* a contact of equal, positive overlaps was resolved along Y, and one of a
\* smaller X overlap along X
C15_Witness ==
    /\ JustDetected
    /\ \E i \in DOMAIN collisions :
          /\ OverlapOn(collisions[i], 1) = OverlapOn(collisions[i], 2)
          /\ collisions[i].penetration = HalfUnit
          /\ AxisOf(collisions[i].normal) = 2

\* the correction the resolver owes side A of a contact
Correction(col) ==
    IF ExceedsSlop(AppliedMtv(col)) THEN AppliedMtv(col) ELSE Zero2
\* a contact the resolver corrects, with a normal of positive sign
CorrectedContact(col) ==
    /\ TypeOf(col.entity_a) = Rigid
    /\ TypeOf(col.entity_b) \in {Rigid, Static}
    /\ MasksMeet(col.entity_a, col.entity_b)
    /\ col.normal \in {<<1, 0>>, <<0, 1>>}
Commits == pc = "on_collision" /\ pc' = "after_physics"

(* C16: commit of the corrected predicted state. The position a sub-step    *)
(* commits for side A of a corrected contact is its predicted position      *)
(* displaced by the applied MTV, not the old stored position corrected and  *)
(* then integrated again.                                                   *)
C16_CommitsCorrectedPrediction ==
    [][Commits =>
          \A i \in DOMAIN collisions :
              CorrectedContact(collisions[i])
              => transforms_2d'[collisions[i].entity_a].position
                     = VSub(collisions[i].next_pos_a, Correction(collisions[i]))]_vars

PredictedVelocity(e) ==
    transform_system_calculate_intended_position(incremented_dt)[e].body.velocity
\* a contact record holds what the prediction from the stored state gives
SnapshotContact(col) ==
    /\ col.next_pos_a = PredictedCentre(col.entity_a)
    /\ col.next_pos_b = PredictedCentre(col.entity_b)
    /\ col.velocity_a = PredictedVelocity(col.entity_a)
    /\ col.velocity_b = PredictedVelocity(col.entity_b)
    /\ col.penetration = Min(OverlapOn(col, 1), OverlapOn(col, 2))
Detects == pc = "update" /\ pc' = "resolve"

(* C17: snapshot before resolution. The prediction and the detection of a   *)
(* sub-step change no stored position or velocity, every record of the      *)
(* contact list holds the positions, velocities and penetration predicted   *)
(* from the state stored before the resolution, and the resolver rewrites   *)
(* no record while it corrects the bodies.                                  *)
C17_ContactsFromOneSnapshot ==
    [][/\ Detects =>
            /\ transforms_2d' = transforms_2d
            /\ physics_bodies_2d' = physics_bodies_2d
            /\ \A i \in DOMAIN collisions' : SnapshotContact(collisions'[i])
       /\ (pc = "resolve" /\ pc' = "resolve") => collisions' = collisions]_vars

\* both contacts of a pair are resolved, side A of the first was moved, and
\* the second still records the position predicted for it before that
C17_Witness ==
    /\ pc = "resolve" /\ ri = 3 /\ Len(collisions) = 2 /\ frames = 1
    /\ PositionOf(collisions[1].entity_a) # created[collisions[1].entity_a].position
    /\ collisions[2].entity_b = collisions[1].entity_a
    /\ collisions[2].next_pos_b = collisions[1].next_pos_a

\* the unit vector across a unit normal
Across(normal) == <<normal[2], normal[1]>>
\* a contact one of the two branches of the resolver takes
ResolvedContact(col) ==
    /\ TypeOf(col.entity_a) = Rigid
    /\ TypeOf(col.entity_b) \in {Rigid, Static}
    /\ MasksMeet(col.entity_a, col.entity_b)

(* C18: slide response. After the resolver has processed a Rigid-vs-Rigid   *)
(* or Rigid-vs-Static contact with overlapping masks, side A's velocity     *)
(* along the normal is zero and its component across the normal is          *)
(* unchanged; side B's velocity is unchanged.                               *)
C18_SlideAlongTheContact ==
    [][(AtContact /\ ResolvedContact(collisions[ri]))
       => LET col == collisions[ri]
          IN /\ Dot(physics_bodies_2d'[col.entity_a].velocity, col.normal) = 0
             /\ Dot(physics_bodies_2d'[col.entity_a].velocity, Across(col.normal))
                    = Dot(VelocityOf(col.entity_a), Across(col.normal))
             /\ physics_bodies_2d'[col.entity_b].velocity = VelocityOf(col.entity_b)]_vars

\* side A came into the contact moving along and across the normal, and left
\* it with the component across the normal alone
C18_Witness ==
    /\ pc = "resolve" /\ ri > 1 /\ frames = 1
    /\ LET col == collisions[ri - 1]
       IN /\ ResolvedContact(col)
          /\ col.velocity_a = <<-5, -5>>
          /\ Dot(VelocityOf(col.entity_a), col.normal) = 0
          /\ Dot(VelocityOf(col.entity_a), Across(col.normal)) = -5

\* between the prediction of a sub-step and its commit
MidSubStep == pc \in {"resolve", "on_collision"}
WritesBodies ==
    \E e \in Bodies :
        \/ physics_bodies_2d'[e].velocity # VelocityOf(e)
        \/ transforms_2d'[e].position # PositionOf(e)
\* a step of the resolver or of the integrator
PipelineStep == (pc = "resolve" /\ ri' = ri + 1) \/ Commits

(* C19: single writer during a tick. Between the prediction of a sub-step   *)
(* and its commit, velocities and positions are written by the resolver and *)
(* the integrator alone: no command of a script changes them there.         *)
C19_SingleWriterDuringSubStep ==
    [][(MidSubStep /\ WritesBodies) => PipelineStep]_vars

(* C20: force accumulator lifecycle. A force added to a rigid body at any   *)
(* point of the frame has gone through an integration step when the         *)
(* accumulators are reset at the end of update, and every accumulator is    *)
(* zero after the reset.                                                    *)
C20_ForcesDrainedBeforeReset ==
    [][(pc = "after_physics" /\ pc' = "idle")
       => /\ \A e \in Bodies : TypeOf(e) = Rigid => undrained[e] = Zero2
          /\ \A e \in Bodies : physics_bodies_2d'[e].force_accumulator = Zero2]_vars

\* a Rigid-vs-Rigid contact the resolver takes
RigidRigidContact(col) ==
    /\ TypeOf(col.entity_a) = Rigid /\ TypeOf(col.entity_b) = Rigid
    /\ MasksMeet(col.entity_a, col.entity_b)

UnresolvedContact(col) ==
    \/ TypeOf(col.entity_a) # Rigid
    \/ TypeOf(col.entity_b) = Kinematic
    \/ ~MasksMeet(col.entity_a, col.entity_b)

(* C22: no correction for other type combinations. Processing a contact     *)
(* whose side A is not Rigid, or whose side B is Kinematic, or whose masks  *)
(* fail the re-check changes no position and no velocity of either entity.  *)
C22_OtherCombinationsUntouched ==
    [][(AtContact /\ UnresolvedContact(collisions[ri]))
       => \A e \in {collisions[ri].entity_a, collisions[ri].entity_b} :
             /\ transforms_2d'[e].position = PositionOf(e)
             /\ physics_bodies_2d'[e].velocity = VelocityOf(e)]_vars

\* a Rigid side A driven into a Kinematic side B beyond the slop, both where
\* and as they were created after the contact was processed
C22_Witness ==
    /\ pc = "resolve" /\ ri = 2 /\ frames = 1
    /\ LET col == collisions[1]
       IN /\ TypeOf(col.entity_a) = Rigid /\ TypeOf(col.entity_b) = Kinematic
          /\ FullMtv(col)[1] > slop \/ FullMtv(col)[2] > slop
          /\ Dot(col.velocity_a, col.normal) # 0
          /\ \A e \in {col.entity_a, col.entity_b} :
                /\ PositionOf(e) = created[e].position
                /\ VelocityOf(e) = created[e].velocity

(* C23: resolution lookups cannot fail. While the contact list detected in  *)
(* a sub-step is being resolved in that sub-step, every collider, body and  *)
(* transform lookup of every contact of the list succeeds, and resolution   *)
(* has not panicked, in every world built by create_body and the commands.  *)
C23_ResolutionLookupsSucceed ==
    pc = "resolve"
        => /\ ~panicked
           /\ \A i \in 1..Len(collisions) : resolve_lookups_ok(collisions[i])

\* both contacts of a pair of created bodies were resolved without a panic
C23_Witness ==
    /\ pc = "resolve" /\ ~panicked
    /\ Len(collisions) = 2 /\ ri = 3
    /\ \A e \in {collisions[1].entity_a, collisions[1].entity_b} : e \in DOMAIN created

\* the contact records of the unordered pair {a, b}
ContactsOf(a, b) ==
    {i \in DOMAIN collisions :
        {collisions[i].entity_a, collisions[i].entity_b} = {a, b}}
Opposite(n, m) == n[1] = -m[1] /\ n[2] = -m[2]

(* C24: ordered-pair symmetry of contacts. Whenever two distinct            *)
(* overlapping colliders pass the mask/layer filter in both directions, the *)
(* detector emits exactly two contact records for them, (A,B) and (B,A),    *)
(* with equal penetration and exactly opposite normals, for every relative  *)
(* placement of the two predicted centres.                                  *)
C24_OrderedPairSymmetry ==
    JustDetected =>
        \A a, b \in Colliders :
            (a # b /\ BoxesOverlap(a, b) /\ MasksMeet(a, b) /\ MasksMeet(b, a))
                => /\ Cardinality(ContactsOf(a, b)) = 2
                   /\ \E i, j \in ContactsOf(a, b) :
                         /\ collisions[i].entity_a = a /\ collisions[i].entity_b = b
                         /\ collisions[j].entity_a = b /\ collisions[j].entity_b = a
                         /\ collisions[i].penetration = collisions[j].penetration
                         /\ Opposite(collisions[i].normal, collisions[j].normal)

\* about_to_wait is called before the target interval has passed
EarlyWakeUp == fps_specified /\ clock - last_frame < unwrap_or_default(target_rate)

(* C25: frame throttling keeps elapsed time. With a target frame rate       *)
(* configured, about_to_wait runs update only if at least the target        *)
(* interval has passed since the last update that ran; an earlier wake-up   *)
(* runs no update and leaves the frame timer alone; and the dt passed to    *)
(* each update is the whole time since the previous update that ran, so     *)
(* that the dt values add up to the wall time elapsed, which is the value   *)
(* of the clock at the update, the engine being constructed at instant 0.   *)
C25_ThrottlingKeepsElapsedTime ==
    [][about_to_wait
       => IF EarlyWakeUp
          THEN /\ frames' = frames /\ pc' = "idle"
               /\ last_frame' = last_frame
          ELSE /\ frames' = frames + 1 /\ pc' = "update"
               /\ dt' = clock - last_frame
               /\ elapsed' = last_frame']_vars

=============================================================================
